---- MODULE Spec2Model ----
(***************************************************************************)
(* Model of the streaming engine of bladeRF_SoapySDR                       *)
(* (src/bladeRF_Streaming.cpp): stream setup/close, the receive command    *)
(* queue, the transmit burst state, the overflow/underflow latches, and    *)
(* the sample block that writeStream hands to the transport.               *)
(*                                                                         *)
(* The engine is single-threaded: one API call runs at a time (pc).  The   *)
(* transport (libbladeRF) is the environment: every result it returns is   *)
(* drawn nondeterministically.  The only call that spans several steps is  *)
(* one that runs the retry loop of sendTxEndBurst: each iteration of the   *)
(* loop is one step, and no other call starts until the loop has ended.    *)
(***************************************************************************)
EXTENDS Integers, Sequences, FiniteSets, Bags

\* ---------------------------------------------------------------- bounds
MaxQueue == 2      \* commands that activateStream may have queued at once
MaxCmdElems == 2   \* largest finite element count of a receive command
MaxElems == 3      \* largest numElems a caller passes to readStream
MaxHandles == 2    \* stream handles alive at once
MaxRetries == 1    \* failed burst-end transfers the transport answers per call
MaxServed == 3     \* cap of the running total kept for the front command
MaxOwed == 2       \* cap of the count of unreported underrun occurrences
\* The sample rates are settings made outside this file; a rate is given by
\* its tick period, 1e9/rate nanoseconds.
RxTickNs == 2      \* 1e9/_rxSampRate
TxTickNs == 4      \* 1e9/_txSampRate

\* ------------------------------------------------------ program constants
DEF_NUM_BUFFS == 32
DEF_BUFF_LEN == 4096
BufAlign == 1024
MaxXfers == 32
TxScale == 2000    \* the factor of the float to int16 conversion

Directions == {"RX", "TX"}
Formats == {"CF32", "CS16", "CU8"}
ChannelSels == {<<>>, <<0>>, <<1>>, <<0, 0>>}
XferRets == {"ok", "timeout", "error"}
CfgRets == {"ok", "error"}

Min(a, b) == IF a < b THEN a ELSE b

\* ------------------------------------------------------------ conversions
\* atoi on a string of decimal digits, given as the sequence of its digits.
RECURSIVE Atoi(_)
Atoi(s) == IF s = <<>> THEN 0 ELSE 10 * Atoi(SubSeq(s, 1, Len(s) - 1)) + s[Len(s)]

\* Kwargs: a map from option name to string, held as its set of <<key, value>>
\* pairs (one pair per key at most).
ArgCount(args, key) == Cardinality({p \in args : p[1] = key})
ArgAt(args, key) == (CHOOSE p \in args : p[1] = key)[2]

\* args.count(key) == 0 ? 0 : atoi(args.at(key))
ArgInt(args, key) == IF ArgCount(args, key) = 0 THEN 0 ELSE Atoi(ArgAt(args, key))

\* The Kwargs that give each option one of the listed values or leave it out.
OptChoice(key, values) == {{}} \cup {{<<key, v>>} : v \in values}
KwargsOver(bs, ls, ts) ==
    {b \cup l \cup t : b \in OptChoice("buffers", bs),
                       l \in OptChoice("buflen", ls),
                       t \in OptChoice("transfers", ts)}

\* ticks = ns * (rate / 1e9), truncated to an integer
NsToTicks(ns, tickNs) == ns \div tickNs

\* ns = ticks * (1e9 / rate)
TicksToNs(ticks, tickNs) == ticks * tickNs

\* A float, held as the fraction num/den (den > 0).
Float(n, d) == [num |-> n, den |-> d]

\* a/b (b > 0) truncated toward zero, as the conversion of a float to an
\* integer type does
TruncDiv(a, b) == IF a >= 0 THEN a \div b ELSE -((-a) \div b)

\* int16_t(input[i]*2000), for a product within the range of int16_t
FloatToFixed(f) == TruncDiv(f.num * TxScale, f.den)

\* the conversion loop of writeStream over a block of floats
RECURSIVE ConvertBlock(_)
ConvertBlock(b) ==
    IF b = <<>> THEN <<>> ELSE <<FloatToFixed(Head(b))>> \o ConvertBlock(Tail(b))

\* the blocks of len components drawn from comps
RECURSIVE Blocks(_, _)
Blocks(comps, len) ==
    IF len = 0 THEN {<<>>}
    ELSE {Append(b, c) : b \in Blocks(comps, len - 1), c \in comps}

\* ------------------------------------------------- setupStream's tunables
NormNumBuffs(args) ==
    LET n0 == ArgInt(args, "buffers")
        n1 == IF n0 = 0 THEN DEF_BUFF_LEN ELSE n0
    IN  IF n1 = 1 THEN n1 + 1 ELSE n1

NormBufSize(args) ==
    LET b0 == ArgInt(args, "buflen")
        b1 == IF b0 = 0 THEN DEF_BUFF_LEN ELSE b0
    IN  IF (b1 % BufAlign) # 0 THEN ((b1 \div BufAlign) + 1) * BufAlign ELSE b1


\* mutant: the transfer count is not clamped to the buffer count
NormNumXfers_NoBuffClamp(args) ==
    LET numBuffs == NormNumBuffs(args)
        x0 == ArgInt(args, "transfers")
        x1 == IF x0 = 0 THEN numBuffs \div 2 ELSE x0
    IN  IF x1 > MaxXfers THEN MaxXfers ELSE x1

NormNumXfers(args) ==
    LET numBuffs == NormNumBuffs(args)
        x0 == ArgInt(args, "transfers")
        x1 == IF x0 = 0 THEN numBuffs \div 2 ELSE x0
        x2 == IF x1 > numBuffs THEN numBuffs ELSE x1
    IN  IF x2 > MaxXfers THEN MaxXfers ELSE x2

ChannelsOk(channels) ==
    ~(Len(channels) > 1 \/ (Len(channels) > 0 /\ channels[1] # 0))

FormatOk(format) == format = "CF32" \/ format = "CS16"

\* ------------------------------------------------------------------ state
VARIABLES
    _rxCmds,            \* std::queue<rxStreamCmd>, front first
    _rxOverflow,        \* overflow latch
    _rxNextTicks,       \* tick position recorded at the last overrun
    _rxFloats,          \* receive format is CF32
    _txFloats,          \* transmit format is CF32
    _inTxBurst,         \* a transmit burst is open
    _txUnderflow,       \* underflow latch
    _cachedBuffSizes,   \* direction -> negotiated buffer length (0: no entry)
    handles,            \* the heap: the bag of the live handles, each the int(direction)
                        \* it holds and (history) the buffer length its setup negotiated
    pc,                 \* "idle", or the call whose burst-end loop is running
    pend,               \* what that call still has to do after the loop
    lastCall,           \* the API call made last
    ret,                \* how it returned
    retN,               \* the number it returned, if any
    outFlags,           \* the flags it wrote back
    outTimeNs,          \* the time it wrote back
    xlog,               \* the transport calls it made, in order
    lastArgs,           \* the options of the last setupStream call
    lastDir,            \* the direction of the handle the last call was made on
    inFlags,            \* the flags the caller passed to the last call
    inElems,            \* the numElems the last call took from its caller
    inBuf,              \* the caller's buffer the last writeStream was given
    frontServed,        \* history: elements delivered for the front command
    ovTrack,            \* history: overrun seen by the previous readStream
    txFresh,            \* history: no writeStream since the last TX setup
    owed,               \* history: underruns signalled minus Underflow reports
    underrunSince       \* history: underrun since last status call / TX setup

vars == <<_rxCmds, _rxOverflow, _rxNextTicks, _rxFloats, _txFloats, _inTxBurst,
          _txUnderflow, _cachedBuffSizes, handles, pc, pend, lastCall,
          ret, retN, outFlags, outTimeNs, xlog, lastArgs, lastDir,
          inFlags, inElems, inBuf, frontServed,
          ovTrack, txFresh, owed, underrunSince>>

engine == <<_rxCmds, _rxOverflow, _rxNextTicks, _rxFloats, _txFloats,
            _inTxBurst, _txUnderflow, _cachedBuffSizes>>

rxState == <<_rxCmds, _rxOverflow, _rxNextTicks, _rxFloats>>
txState == <<_inTxBurst, _txUnderflow, _txFloats>>
rxHist == <<frontServed, ovTrack>>
txHist == <<txFresh, owed, underrunSince>>

\* a handle: new int(direction)
Handle(d, negotiated) == [dir |-> d, mtu |-> negotiated]
NoPend == [n |-> 0, underrun |-> FALSE]

\* ovTrack: what the previous readStream call was
OvNone == [kind |-> "none", ticks |-> 0]
OvReported == [kind |-> "reported", ticks |-> 0]
OvAt(t) == [kind |-> "overrun", ticks |-> t]

Live == BagToSet(handles)
LiveHandles(d) == {h \in Live : h.dir = d}
\* how many handles of direction d are alive
HandleCount(d) == BagCardinality([h \in LiveHandles(d) |-> CopiesIn(h, handles)])

\* State after construction: empty queue and map, flags clear.
Init ==
    /\ _rxCmds = <<>>
    /\ _rxOverflow = FALSE
    /\ _rxNextTicks = 0
    /\ _rxFloats = FALSE
    /\ _txFloats = FALSE
    /\ _inTxBurst = FALSE
    /\ _txUnderflow = FALSE
    /\ _cachedBuffSizes = [d \in Directions |-> 0]
    /\ handles = EmptyBag
    /\ pc = "idle"
    /\ pend = NoPend
    /\ lastCall = "none"
    /\ ret = "none"
    /\ retN = 0
    /\ outFlags = {}
    /\ outTimeNs = 0
    /\ xlog = <<>>
    /\ lastArgs = {}
    /\ lastDir = "none"
    /\ inFlags = {}
    /\ inElems = 0
    /\ inBuf = <<>>
    /\ frontServed = 0
    /\ ovTrack = OvNone
    /\ txFresh = FALSE
    /\ owed = 0
    /\ underrunSince = FALSE

\* What a call that returns at once leaves in the observation variables.
Returned(call, r, n, log) ==
    /\ lastCall' = call
    /\ ret' = r
    /\ retN' = n
    /\ xlog' = log
    /\ pc' = "idle"
    /\ pend' = NoPend

NoOutput == outFlags' = {} /\ outTimeNs' = 0

\* What the caller passed to a call that takes an element count and a buffer.
CalledWith(dir, flags, args, numElems, buf) ==
    /\ lastDir' = dir
    /\ inFlags' = flags
    /\ lastArgs' = args
    /\ inElems' = numElems
    /\ inBuf' = buf

\* What the caller passed.
Called(dir, flags, args) == CalledWith(dir, flags, args, 0, <<>>)

\* ------------------------------------------------------------ setupStream
\* The options the callers of the engine pass.
SetupArgs == { {}, {<<"buffers", <<1>> >>, <<"buflen", <<1, 0, 0>> >>} }

\* No options: the defaults.
DefaultArgs == { {} }

\* A wider range of options, for the normalization rules.
WideArgs ==
    KwargsOver({<<0>>, <<1>>, <<2>>, <<3>>, <<4, 0>>, <<6, 4>>},
               {<<0>>, <<1>>, <<1, 0, 0>>, <<1, 0, 2, 3>>, <<1, 0, 2, 4>>,
                <<1, 0, 2, 5>>, <<2, 0, 4, 8>>, <<4, 0, 9, 7>>},
               {<<0>>, <<1>>, <<2>>, <<3>>, <<3, 2>>, <<3, 3>>, <<5, 0>>})

SyncConfig(direction, args, r) ==
    [op |-> "config", dir |-> direction, numBuffs |-> NormNumBuffs(args),
     bufSize |-> NormBufSize(args), numXfers |-> NormNumXfers(args), ret |-> r]

EnableModule(direction, enable, r) ==
    [op |-> "enable", dir |-> direction, on |-> enable, ret |-> r]

SetupStreamWith(direction, format, channels, args, cfgRet, enRet) ==
    /\ pc = "idle"
    /\ BagCardinality(handles) < MaxHandles
    /\ Called(direction, {}, args)
    /\ NoOutput
    /\ IF ~ChannelsOk(channels) \/ ~FormatOk(format)
       THEN /\ Returned("setupStream", "threw", 0, <<>>)
            /\ UNCHANGED <<engine, handles, rxHist, txHist>>
       ELSE IF cfgRet # "ok"
       THEN /\ Returned("setupStream", "threw", 0,
                        <<SyncConfig(direction, args, cfgRet)>>)
            /\ UNCHANGED <<engine, handles, rxHist, txHist>>
       ELSE IF enRet # "ok"
       THEN /\ Returned("setupStream", "threw", 0,
                        <<SyncConfig(direction, args, cfgRet),
                          EnableModule(direction, TRUE, enRet)>>)
            /\ UNCHANGED <<engine, handles, rxHist, txHist>>
       ELSE /\ Returned("setupStream", "handle", 0,
                        <<SyncConfig(direction, args, cfgRet),
                          EnableModule(direction, TRUE, enRet)>>)
            /\ IF direction = "RX"
               THEN /\ _rxOverflow' = FALSE
                    /\ _rxFloats' = (format = "CF32")
                    /\ ovTrack' = OvNone
                    /\ UNCHANGED <<_txUnderflow, _txFloats, txHist>>
               ELSE /\ _txUnderflow' = FALSE
                    /\ _txFloats' = (format = "CF32")
                    /\ txFresh' = TRUE
                    /\ underrunSince' = FALSE
                    /\ UNCHANGED <<_rxOverflow, _rxFloats, ovTrack, owed>>
            /\ _cachedBuffSizes' =
                   [_cachedBuffSizes EXCEPT ![direction] = NormBufSize(args)]
            /\ handles' = handles (+) SetToBag({Handle(direction, NormBufSize(args))})
            /\ UNCHANGED <<_rxCmds, _rxNextTicks, _inTxBurst, frontServed>>

SetupStreamOver(dirs, formats, argSet) ==
    \E direction \in dirs, format \in formats, channels \in ChannelSels,
       args \in argSet, cfgRet \in CfgRets, enRet \in CfgRets :
        \* the result of a transport call that is never reached is not drawn
        /\ ~(ChannelsOk(channels) /\ FormatOk(format))
              => cfgRet = "ok" /\ enRet = "ok"
        /\ cfgRet # "ok" => enRet = "ok"
        /\ SetupStreamWith(direction, format, channels, args, cfgRet, enRet)

SetupStream == SetupStreamOver(Directions, Formats, SetupArgs)

\* the caller of one direction, with the default options
SetupStreamRx == SetupStreamOver({"RX"}, Formats, DefaultArgs)
SetupStreamTx == SetupStreamOver({"TX"}, Formats, DefaultArgs)

\* the first setupStream on a fresh engine, over the wide range of options
SetupStreamFirst ==
    lastCall = "none" /\ SetupStreamOver(Directions, Formats, WideArgs)

\* ------------------------------------------------------------ closeStream
CloseStream ==
    /\ pc = "idle"
    /\ \E h \in Live, r \in CfgRets :
        /\ NoOutput
        /\ Called(h.dir, {}, {})
        /\ IF r # "ok"
           THEN /\ Returned("closeStream", "threw", 0,
                            <<EnableModule(h.dir, FALSE, r)>>)
                /\ UNCHANGED handles
           ELSE /\ Returned("closeStream", "ok", 0,
                            <<EnableModule(h.dir, FALSE, r)>>)
                /\ handles' = handles (-) SetToBag({h})
        /\ UNCHANGED <<engine, rxHist, txHist>>

\* ----------------------------------------------------------- getStreamMTU
\* _cachedBuffSizes.at(direction) of the handle's direction
StreamMTU(h) == _cachedBuffSizes[h.dir]

GetStreamMTU ==
    /\ pc = "idle"
    /\ \E h \in Live :
        /\ NoOutput
        /\ Called(h.dir, {}, {})
        /\ IF StreamMTU(h) = 0
           THEN Returned("getStreamMTU", "threw", 0, <<>>)
           ELSE Returned("getStreamMTU", "count", StreamMTU(h), <<>>)
        /\ UNCHANGED <<engine, handles, rxHist, txHist>>

\* --------------------------------------------------------- activateStream
\* flags and timeNs of an activation: immediate, or at a given time
ActStarts == {<<{}, 0>>, <<{"HAS_TIME"}, 4>>}
\* numElems of an activation: continuous, or a finite count
ActElems == {0, MaxCmdElems}

RxStreamCmd(f, t, n) == [flags |-> f, timeNs |-> t, numElems |-> n]

ActivateStream ==
    /\ pc = "idle"
    /\ \E h \in Live, start \in ActStarts, numElems \in ActElems :
        LET flags == start[1]
            timeNs == start[2]
        IN
        /\ NoOutput
        /\ Called(h.dir, flags, {})
        /\ IF h.dir = "RX"
           THEN /\ Len(_rxCmds) < MaxQueue
                /\ _rxCmds' = Append(_rxCmds, RxStreamCmd(flags, timeNs, numElems))
                /\ Returned("activateStream", "ok", 0, <<>>)
           ELSE /\ UNCHANGED _rxCmds
                /\ IF flags # {}
                   THEN Returned("activateStream", "NotSupported", 0, <<>>)
                   ELSE Returned("activateStream", "ok", 0, <<>>)
        /\ UNCHANGED <<_rxOverflow, _rxNextTicks, _rxFloats, txState,
                       _cachedBuffSizes, handles, rxHist, txHist>>

\* ----------------------------------------------------------- burst state
\* mutant: every data transfer is marked as the start of a burst
TxMdFlags_StartAlways(flags, inBurst) ==
    (IF "HAS_TIME" \in flags THEN {} ELSE {"TX_NOW"}) \cup {"TX_BURST_START"}

\* md.flags of a data transfer of writeStream
TxMdFlags(flags, inBurst) ==
    (IF "HAS_TIME" \in flags THEN {} ELSE {"TX_NOW"})
        \cup (IF ~inBurst THEN {"TX_BURST_START"} ELSE {})

\* md.timestamp of a data transfer of writeStream
TxMdTimestamp(flags, timeNs) ==
    IF "HAS_TIME" \in flags THEN NsToTicks(timeNs, TxTickNs) ELSE 0

SyncTx(samples, n, mdFlags, ts, r) ==
    [op |-> "tx", samples |-> samples, n |-> n, flags |-> mdFlags, ts |-> ts,
     ret |-> r]

SyncRx(n, mdFlags, ts, r) ==
    [op |-> "rx", n |-> n, flags |-> mdFlags, ts |-> ts, ret |-> r]

\* the transfer of sendTxEndBurst: 2 zero words, the burst-end marker
EndBurstXfer(r) == SyncTx(<<0, 0, 0, 0>>, 2, {"TX_BURST_END"}, 0, r)

\* mutant: the loop is left after any result other than timeout
EndBurstLoopExits_NotTimeout(r) == r # "timeout"

\* whether the loop of sendTxEndBurst is left after a transfer returned r
EndBurstLoopExits(r) == r = "ok"


\* mutant: the latch is overwritten by the status of the last transfer
UnderflowAfterTx_Overwrite(latch, underrun) == underrun

\* the underflow latch after a successful writeStream
UnderflowAfterTx(latch, underrun) == IF underrun THEN TRUE ELSE latch


\* mutant: the wrong flag bit is tested
WantsEndBurst_WrongFlag(flags) == "HAS_TIME" \in flags

\* whether writeStream ends the burst after its data transfer
WantsEndBurst(flags) == "END_BURST" \in flags

\* history of underruns, at the return of a successful writeStream
TxReturnHist(underrun) ==
    /\ owed' = IF underrun THEN owed + 1 ELSE owed
    /\ underrunSince' = (underrunSince \/ underrun)


\* mutant: only the front command is removed
DeactivatedCmds_PopFront(q) == IF q = <<>> THEN q ELSE Tail(q)

\* -------------------------------------------------------- deactivateStream
\* the queue after deactivation
DeactivatedCmds(q) == <<>>

DeactFlags == {{}, {"END_BURST"}}

DeactivateStream ==
    /\ pc = "idle"
    /\ \E h \in Live, flags \in DeactFlags :
        /\ NoOutput
        /\ Called(h.dir, flags, {})
        /\ IF flags # {}
           THEN /\ Returned("deactivateStream", "NotSupported", 0, <<>>)
                /\ UNCHANGED <<_rxCmds, frontServed>>
           ELSE IF h.dir = "RX"
           THEN /\ _rxCmds' = DeactivatedCmds(_rxCmds)
                /\ frontServed' = 0
                /\ Returned("deactivateStream", "ok", 0, <<>>)
           ELSE /\ UNCHANGED <<_rxCmds, frontServed>>
                /\ IF _inTxBurst
                   THEN /\ lastCall' = "deactivateStream"
                                            /\ ret' = "pending"
                        /\ retN' = 0
                        /\ xlog' = <<>>
                        /\ pc' = "deact_endBurst"
                        /\ pend' = NoPend
                   ELSE Returned("deactivateStream", "ok", 0, <<>>)
        /\ UNCHANGED <<_rxOverflow, _rxNextTicks, _rxFloats, txState,
                       _cachedBuffSizes, handles, ovTrack, txHist>>

\* ------------------------------------------------------------- writeStream
WriteFlags == SUBSET {"HAS_TIME", "END_BURST"}
WriteTimes == {8}
WriteElems == {1, 2}

\* the components of the caller's buffers: silence
SilentFloats == {Float(0, 1)}
SilentFixed == {0}

\* the block handed to bladerf_sync_tx.  Native format: the caller's buffer.
\* Floats: 'samples' is pointed at _txConvBuff before 'input' is taken from
\* it, so the loop converts what _txConvBuff itself held, read as floats
\* (scratch), into _txConvBuff, and the caller's buffer is not read.
TxSamples(floats, buf, scratch) == IF floats THEN ConvertBlock(scratch) ELSE buf


\* mutant: a burst is open after any data transfer, failed or not
InBurstAfterTx_Always(inBurst, r) == TRUE

\* the in-burst flag after the data transfer of writeStream returned r
InBurstAfterTx(inBurst, r) == IF r = "ok" THEN TRUE ELSE inBurst

WriteStreamOver(elems, flagSets, floatComps, fixedComps) ==
    /\ pc = "idle"
    /\ \E h \in LiveHandles("TX"), numElems \in elems,
          flags \in flagSets, timeNs \in WriteTimes, r \in XferRets :
       \E buf \in Blocks(IF _txFloats THEN floatComps ELSE fixedComps,
                         2 * numElems),
          scratch \in Blocks(IF _txFloats THEN floatComps ELSE SilentFloats,
                             2 * numElems) :
        LET data == SyncTx(TxSamples(_txFloats, buf, scratch), numElems,
                           TxMdFlags(flags, _inTxBurst),
                           TxMdTimestamp(flags, timeNs), r)
        IN
        /\ NoOutput
        /\ CalledWith("TX", flags, {}, numElems, buf)
        /\ txFresh' = FALSE
        /\ _inTxBurst' = InBurstAfterTx(_inTxBurst, r)
        /\ IF r = "timeout"
           THEN /\ Returned("writeStream", "Timeout", 0, <<data>>)
                /\ UNCHANGED <<_txUnderflow, owed, underrunSince>>
           ELSE IF r # "ok"
           THEN /\ Returned("writeStream", "StreamError", 0, <<data>>)
                /\ UNCHANGED <<_txUnderflow, owed, underrunSince>>
           ELSE \E underrun \in BOOLEAN :
                /\ underrun => owed < MaxOwed
                /\ IF WantsEndBurst(flags)
                   THEN /\ lastCall' = "writeStream"
                        /\ ret' = "pending"
                        /\ retN' = 0
                        /\ xlog' = <<data>>
                        /\ pc' = "write_endBurst"
                        /\ pend' = [n |-> numElems, underrun |-> underrun]
                        /\ UNCHANGED <<_txUnderflow, owed, underrunSince>>
                   ELSE /\ _txUnderflow' = UnderflowAfterTx(_txUnderflow, underrun)
                        /\ TxReturnHist(underrun)
                        /\ Returned("writeStream", "count", numElems, <<data>>)
        /\ UNCHANGED <<rxState, _txFloats, _cachedBuffSizes, handles, rxHist>>

\* the caller whose buffers hold silence
WriteStream ==
    WriteStreamOver(WriteElems, WriteFlags, SilentFloats, SilentFixed)

\* the components of the buffers of a caller that sends a signal
FloatSamples == {Float(3, 4000), Float(-1, 2)}
FixedSamples == {0, 7}
WriteStreamSignal == WriteStreamOver({1}, {{}}, FloatSamples, FixedSamples)

\* ---------------------------------------------------------- sendTxEndBurst
\* One iteration of the loop, and, when the loop is left, the rest of the call
\* that ran it.
SendTxEndBurst ==
    /\ pc \in {"write_endBurst", "deact_endBurst"}
    /\ \E r \in XferRets :
        /\ (r # "ok") =>
              Cardinality({i \in DOMAIN xlog : xlog[i].ret # "ok"
                              /\ "TX_BURST_END" \in xlog[i].flags}) < MaxRetries
        /\ IF ~EndBurstLoopExits(r)
           THEN /\ xlog' = Append(xlog, EndBurstXfer(r))
                /\ UNCHANGED <<_inTxBurst, _txUnderflow, pc, pend, lastCall,
                               ret, retN, owed, underrunSince>>
           ELSE /\ _inTxBurst' = FALSE
                /\ lastCall' = lastCall
                /\ xlog' = Append(xlog, EndBurstXfer(r))
                /\ pc' = "idle"
                /\ pend' = NoPend
                /\ IF pc = "write_endBurst"
                   THEN /\ _txUnderflow' = UnderflowAfterTx(_txUnderflow, pend.underrun)
                        /\ TxReturnHist(pend.underrun)
                        /\ ret' = "count"
                        /\ retN' = pend.n
                   ELSE /\ ret' = "ok"
                        /\ retN' = 0
                        /\ UNCHANGED <<_txUnderflow, owed, underrunSince>>
    /\ UNCHANGED <<rxState, _txFloats, _cachedBuffSizes, handles, rxHist,
                   txFresh, outFlags, outTimeNs, lastArgs, lastDir, inFlags,
                   inElems, inBuf>>

\* -------------------------------------------------------- readStreamStatus
\* the result of readStreamStatus given the underflow latch
StatusResult(latch) == IF latch THEN "Underflow" ELSE "ok"

ReadStreamStatus ==
    /\ pc = "idle"
    /\ \E h \in Live :
        /\ NoOutput
        /\ Called(h.dir, {}, {})
        /\ Returned("readStreamStatus", StatusResult(_txUnderflow), 0, <<>>)
        /\ _txUnderflow' = FALSE
        /\ owed' = IF StatusResult(_txUnderflow) = "Underflow" /\ owed > 0
                   THEN owed - 1 ELSE owed
        /\ underrunSince' = FALSE
        /\ UNCHANGED <<rxState, _inTxBurst, _txFloats, _cachedBuffSizes, handles,
                       rxHist, txFresh>>

\* -------------------------------------------------------------- readStream
RxStamps == {5}


\* mutant: the overflow latch is looked at before the queue
RxEntry_LatchFirst(q, latch) ==
    IF latch THEN "overflow" ELSE IF q = <<>> THEN "empty" ELSE "dispatch"

\* which way readStream goes before it builds the metadata
RxEntry(q, latch) ==
    IF q = <<>> THEN "empty" ELSE IF latch THEN "overflow" ELSE "dispatch"

\* md.flags of the receive transfer
RxMdFlags(cmd) == IF "HAS_TIME" \notin cmd.flags THEN {"RX_NOW"} ELSE {}

\* md.timestamp of the receive transfer
RxMdTimestamp(cmd) == NsToTicks(cmd.timeNs, RxTickNs)

\* the element count asked of the transport
RxRequest(cmd, numElems) ==
    IF cmd.numElems > 0 THEN Min(cmd.numElems, numElems) ELSE numElems

\* mutant: cmd is a reference to the front command, whose flags line 207 clears
RxCmdsAfterTimeout_FlagsCleared(q, cmd) ==
    <<[cmd EXCEPT !.flags = {}]>> \o Tail(q)

\* the queue after a transport timeout; cmd is the copy of the front command,
\* and the flags cleared before the transfer are those of the copy
RxCmdsAfterTimeout(q, cmd) == q


\* mutant: the front command is removed after any transport error
RxCmdsAfterError_AlwaysPop(q, cmd) == Tail(q)

\* the queue after a transport error; cmd is the copy of the front command
RxCmdsAfterError(q, cmd) == IF cmd.numElems > 0 THEN Tail(q) ELSE q

\* the queue after a successful transfer of actual elements; cmd is the copy
\* of the front command that readStream took on entry: the count is taken off
\* the copy, and the command in the queue keeps the count it had
RxCmdsAfterOk(q, cmd, actual) ==
    IF cmd.numElems > 0
    THEN (IF cmd.numElems - actual = 0 THEN Tail(q) ELSE q)
    ELSE q


\* mutant: the position recorded is the start of the block, not its end
OverrunTicks_BlockStart(ts, actual) == ts

\* the tick position recorded at an overrun
OverrunTicks(ts, actual) == ts + actual

\* history: the running total delivered for the front command
ServedAfter(q, qAfter, cmd, actual) ==
    IF Len(qAfter) < Len(q) \/ cmd.numElems = 0 THEN 0 ELSE frontServed + actual

ReadStream ==
    /\ pc = "idle"
    /\ \E h \in LiveHandles("RX") :
        /\ IF RxEntry(_rxCmds, _rxOverflow) = "empty"
           THEN /\ Called("RX", {}, {})
                /\ Returned("readStream", "Timeout", 0, <<>>)
                /\ outFlags' = {"UNWRITTEN"}
                /\ outTimeNs' = 0
                /\ ovTrack' = OvNone
                /\ UNCHANGED <<_rxCmds, _rxOverflow, _rxNextTicks, frontServed>>
           ELSE IF RxEntry(_rxCmds, _rxOverflow) = "overflow"
           THEN /\ Called("RX", {}, {})
                /\ _rxOverflow' = FALSE
                /\ outFlags' = {"HAS_TIME"}
                /\ outTimeNs' = TicksToNs(_rxNextTicks, RxTickNs)
                /\ Returned("readStream", "Overflow", 0, <<>>)
                /\ ovTrack' = OvReported
                /\ UNCHANGED <<_rxCmds, _rxNextTicks, frontServed>>
           ELSE \E numElems \in 1 .. MaxElems, r \in XferRets :
                LET cmd == Head(_rxCmds)
                    req == RxRequest(cmd, numElems)
                    xfer == SyncRx(req, RxMdFlags(cmd), RxMdTimestamp(cmd), r)
                IN
                /\ CalledWith("RX", {}, {}, numElems, <<>>)
                /\ IF r = "timeout"
                   THEN /\ NoOutput
                        /\ _rxCmds' = RxCmdsAfterTimeout(_rxCmds, cmd)
                        /\ Returned("readStream", "Timeout", 0, <<xfer>>)
                        /\ ovTrack' = OvNone
                        /\ UNCHANGED <<_rxOverflow, _rxNextTicks, frontServed>>
                   ELSE IF r # "ok"
                   THEN /\ NoOutput
                        /\ _rxCmds' = RxCmdsAfterError(_rxCmds, cmd)
                        /\ frontServed' =
                               IF Len(_rxCmds') < Len(_rxCmds) THEN 0 ELSE frontServed
                        /\ Returned("readStream", "StreamError", 0, <<xfer>>)
                        /\ ovTrack' = OvNone
                        /\ UNCHANGED <<_rxOverflow, _rxNextTicks>>
                   ELSE \E ts \in RxStamps, actual \in 1 .. req, overrun \in BOOLEAN :
                        /\ outFlags' = {"HAS_TIME"}
                        /\ outTimeNs' = TicksToNs(ts, RxTickNs)
                        /\ IF overrun
                           THEN /\ _rxNextTicks' = OverrunTicks(ts, actual)
                                /\ _rxOverflow' = TRUE
                                /\ ovTrack' = OvAt(ts + actual)
                           ELSE /\ UNCHANGED <<_rxNextTicks, _rxOverflow>>
                                /\ ovTrack' = OvNone
                        /\ _rxCmds' = RxCmdsAfterOk(_rxCmds, cmd, actual)
                        /\ frontServed' = ServedAfter(_rxCmds, _rxCmds', cmd, actual)
                        /\ frontServed' <= MaxServed
                        /\ Returned("readStream", "count", actual, <<xfer>>)
        /\ UNCHANGED <<_rxFloats, txState, _cachedBuffSizes, handles, txHist>>

\* ----------------------------------------------------------- specification
\* Every call, on both directions.
Next ==
    \/ SetupStream
    \/ CloseStream
    \/ GetStreamMTU
    \/ ActivateStream
    \/ DeactivateStream
    \/ ReadStream
    \/ WriteStream
    \/ SendTxEndBurst
    \/ ReadStreamStatus

Spec == Init /\ [][Next]_vars

\* The receive direction: the calls of an application that receives.
NextRx ==
    \/ SetupStreamRx
    \/ CloseStream
    \/ ActivateStream
    \/ DeactivateStream
    \/ ReadStream

SpecRx == Init /\ [][NextRx]_vars

\* The transmit direction: the calls of an application that transmits.
NextTx ==
    \/ SetupStreamTx
    \/ CloseStream
    \/ ActivateStream
    \/ DeactivateStream
    \/ WriteStream
    \/ SendTxEndBurst
    \/ ReadStreamStatus

SpecTx == Init /\ [][NextTx]_vars

\* Deactivation: the calls of an application that queues receive commands and
\* transmits bursts, on streams of both directions in the native format, and
\* deactivates them.
SetupStreamBoth == SetupStreamOver(Directions, {"CS16"}, DefaultArgs)

NextDeact ==
    \/ SetupStreamBoth
    \/ ActivateStream
    \/ DeactivateStream
    \/ WriteStream
    \/ SendTxEndBurst

SpecDeact == Init /\ [][NextDeact]_vars

\* The stream lifecycle: handles of both directions, made and closed.
NextSetup ==
    \/ SetupStream
    \/ CloseStream
    \/ GetStreamMTU

SpecSetup == Init /\ [][NextSetup]_vars

\* The sample data: the calls of an application that transmits a signal in
\* one open burst.
NextConv ==
    \/ SetupStreamTx
    \/ WriteStreamSignal

SpecConv == Init /\ [][NextConv]_vars

\* The tunables of setupStream: one call, any options.
NextFirst == SetupStreamFirst

SpecFirst == Init /\ [][NextFirst]_vars

\* ------------------------------------------------------------------ claims
\* A step that is a call of readStream (from entry to return).
IsReadCall == pc = "idle" /\ lastCall' = "readStream"

\* A step that is the entry of a call of writeStream, up to the return or to
\* the burst-end loop.
IsWriteCall == pc = "idle" /\ lastCall' = "writeStream"

\* C1: a finite receive command activated with N > 0 elements is removed from
\* the queue exactly on the successful readStream call at which the running
\* total of the actual counts served for it first equals N; on every earlier
\* call it stays at the front, and the remainder N - total never goes below
\* zero.
C1_DequeuedWhenTotalReachesN ==
    [][ (IsReadCall /\ ret' = "count" /\ Head(_rxCmds).numElems > 0) =>
          LET N == Head(_rxCmds).numElems
              total == frontServed + retN'
          IN  /\ total <= N
              /\ (total = N) => (_rxCmds' = Tail(_rxCmds))
              /\ (total < N) => (_rxCmds' = _rxCmds) ]_vars

\* C2 (as claimed): after a successful readStream call on which the transport
\* signalled an overrun, the very next readStream call returns Overflow without
\* invoking the transport and reports the tick position recorded at that call,
\* whatever that call did to the command queue; and the readStream call after
\* the Overflow report is dispatched to the transport.
C2_OverflowOnNextReadAlways ==
    [][ IsReadCall =>
          /\ (ovTrack.kind = "overrun") =>
                /\ ret' = "Overflow"
                /\ xlog' = <<>>
                /\ outTimeNs' = TicksToNs(ovTrack.ticks, RxTickNs)
          /\ (ovTrack.kind = "reported") =>
                (Len(xlog') = 1 /\ xlog'[1].op = "rx") ]_vars

\* C2 (amended): after a successful readStream call on which the transport
\* signalled an overrun, and with no setupStream of the receive direction in
\* between, the next readStream call made while the command queue is not empty
\* returns Overflow without invoking the transport and reports (with HasTime)
\* the tick position recorded at that call, transport timestamp + actual
\* count, in nanoseconds; made while the queue is empty it returns Timeout
\* without invoking the transport and the latch stays set.  The readStream
\* call after an Overflow report is dispatched to the transport when the
\* queue is not empty.
C2_OverflowOnNextReadWithCommand ==
    [][ IsReadCall =>
          /\ (ovTrack.kind = "overrun" /\ _rxCmds # <<>>) =>
                /\ ret' = "Overflow"
                /\ xlog' = <<>>
                /\ outFlags' = {"HAS_TIME"}
                /\ outTimeNs' = TicksToNs(ovTrack.ticks, RxTickNs)
                /\ ~_rxOverflow'
          /\ (ovTrack.kind = "overrun" /\ _rxCmds = <<>>) =>
                /\ ret' = "Timeout"
                /\ xlog' = <<>>
                /\ _rxOverflow'
          /\ (ovTrack.kind = "reported" /\ _rxCmds # <<>>) =>
                (Len(xlog') = 1 /\ xlog'[1].op = "rx") ]_vars

\* C2 witness: a readStream call has just reported the overrun of the call
\* before it: Overflow, no transport call, the recorded position as the time.
C2_Witness ==
    /\ lastCall = "readStream"
    /\ ret = "Overflow"
    /\ ovTrack = OvReported
    /\ xlog = <<>>
    /\ outTimeNs = TicksToNs(_rxNextTicks, RxTickNs)
    /\ _rxNextTicks > 0

\* C3: the first writeStream call made after a successful setupStream of the
\* transmit direction carries the burst-start marker in its transport
\* metadata, whatever calls were made on the engine before that setupStream.
C3_FirstWriteAfterSetupStartsBurst ==
    [][ (IsWriteCall /\ txFresh) => ("TX_BURST_START" \in xlog'[1].flags) ]_vars

\* C4: when a writeStream call whose flags request end-of-burst returns a
\* sample count, the transport has been sent the data transfer, which
\* succeeded, and after it burst-end marker transfers and nothing else, and the
\* in-burst flag is false.
C4_EndOfBurstClosesBurst ==
    (lastCall = "writeStream" /\ ret = "count" /\ "END_BURST" \in inFlags) =>
        /\ ~_inTxBurst
        /\ Len(xlog) >= 2
        /\ xlog[1].ret = "ok" /\ "TX_BURST_END" \notin xlog[1].flags
        /\ \A i \in 2 .. Len(xlog) : "TX_BURST_END" \in xlog[i].flags

\* C4 witness: such a call has returned, after the marker was retried.
C4_Witness ==
    /\ lastCall = "writeStream"
    /\ ret = "count"
    /\ "END_BURST" \in inFlags
    /\ Len(xlog) >= 3
    /\ ~_inTxBurst

\* C5: when deactivateStream with flags 0 returns, the handle's direction has
\* no pending work.  Receive: the command queue is empty, no transport call was
\* made, and a readStream made now takes the empty-queue (Timeout) return.
\* Transmit: the in-burst flag is false; if a burst was open at the call, the
\* call ran the burst-end loop and the transport calls it made are burst-end
\* marker transfers, at least one; if none was open, it made no transport call.
C5_DeactivateLeavesNoWork ==
    /\ [][ (pc = "idle" /\ lastCall' = "deactivateStream" /\ inFlags' = {}) =>
             IF lastDir' = "RX"
             THEN /\ ret' = "ok"
                  /\ _rxCmds' = <<>>
                  /\ xlog' = <<>>
                  /\ RxEntry(_rxCmds', _rxOverflow') = "empty"
             ELSE IF _inTxBurst
             THEN pc' = "deact_endBurst"
             ELSE ret' = "ok" /\ xlog' = <<>> /\ ~_inTxBurst' ]_vars
    /\ [][ (pc = "deact_endBurst" /\ pc' = "idle") =>
             /\ ret' = "ok"
             /\ ~_inTxBurst'
             /\ xlog' # <<>>
             /\ \A i \in DOMAIN xlog' : "TX_BURST_END" \in xlog'[i].flags ]_vars

\* C5 witness: deactivateStream has returned on the transmit direction after
\* closing an open burst, while receive commands of the other stream wait.
C5_Witness ==
    /\ lastCall = "deactivateStream"
    /\ lastDir = "TX"
    /\ ret = "ok"
    /\ xlog # <<>>
    /\ ~_inTxBurst
    /\ Len(_rxCmds) = MaxQueue

\* C6 (as claimed): readStreamStatus returns Underflow once for each
\* successful writeStream whose transport metadata signalled underrun: it
\* returns Underflow while an occurrence has not been reported yet, and Ok
\* otherwise.
C6_UnderflowOncePerUnderrun ==
    [][ (pc = "idle" /\ lastCall' = "readStreamStatus") =>
          ret' = (IF owed > 0 THEN "Underflow" ELSE "ok") ]_vars

\* C6 (amended): readStreamStatus returns Underflow if and only if at least
\* one successful writeStream signalled underrun since the later of the
\* previous readStreamStatus call and the last successful setupStream of the
\* transmit direction, and Ok otherwise; it leaves the latch clear.  Underruns
\* signalled in between are reported together, by one Underflow, so there are
\* never more Underflow returns than underruns.
C6_UnderflowOncePerLatch ==
    [][ (pc = "idle" /\ lastCall' = "readStreamStatus") =>
          /\ ret' = (IF underrunSince THEN "Underflow" ELSE "ok")
          /\ (ret' = "Underflow") => (owed >= 1)
          /\ ~_txUnderflow' ]_vars

\* C6 witness: readStreamStatus has returned Underflow once for two underruns.
C6_Witness ==
    /\ lastCall = "readStreamStatus"
    /\ ret = "Underflow"
    /\ owed >= 1
    /\ ~_txUnderflow

\* C7: readStream called while the command queue is empty returns Timeout,
\* makes no transport call and leaves the queue and the overflow latch as
\* they were, whether the latch is set or not.
C7_EmptyQueueTimesOut ==
    [][ (IsReadCall /\ _rxCmds = <<>>) =>
          /\ ret' = "Timeout"
          /\ xlog' = <<>>
          /\ _rxCmds' = _rxCmds
          /\ _rxOverflow' = _rxOverflow ]_vars

\* C7 witness: such a call has returned Timeout with the latch set.
C7_Witness ==
    /\ lastCall = "readStream"
    /\ ret = "Timeout"
    /\ _rxCmds = <<>>
    /\ _rxOverflow
    /\ xlog = <<>>

\* C8: at most one stream handle exists per direction at any time.
C8_OneHandlePerDirection ==
    \A d \in Directions : HandleCount(d) <= 1

\* C9: for every live handle, getStreamMTU returns the normalized buffer
\* length negotiated by the setupStream call that returned the handle.
C9_MtuIsNegotiatedLength ==
    \A h \in Live : StreamMTU(h) = h.mtu

\* C10: the values setupStream passes to the transport, for requested values
\* b (buffers), l (buflen) and t (transfers): the buffer count is 2 if b = 1
\* and b if b > 1; the buffer length, for l > 0, is the smallest multiple of
\* 1024 that is >= l; the transfer count is min(t', buffer count, 32), where
\* t' is t if t is not zero and half the buffer count otherwise.
C10_TunablesNormalized ==
    (lastCall = "setupStream" /\ xlog # <<>>) =>
        LET b == ArgInt(lastArgs, "buffers")
            l == ArgInt(lastArgs, "buflen")
            t == ArgInt(lastArgs, "transfers")
            cfg == xlog[1]
            t1 == IF t # 0 THEN t ELSE cfg.numBuffs \div 2
        IN  /\ cfg.op = "config"
            /\ (b = 1) => (cfg.numBuffs = 2)
            /\ (b > 1) => (cfg.numBuffs = b)
            /\ (l > 0) => /\ cfg.bufSize % 1024 = 0
                          /\ cfg.bufSize >= l
                          /\ cfg.bufSize - 1024 < l
            /\ cfg.numXfers = Min(Min(t1, cfg.numBuffs), 32)
            /\ cfg.numXfers <= cfg.numBuffs
            /\ cfg.numXfers <= 32

\* C10 witness: a setupStream asked for 1 buffer of 100 samples and 50
\* transfers, and configured the transport with 2 buffers of 1024 and 2
\* transfers.
C10_Witness ==
    /\ lastCall = "setupStream"
    /\ ret = "handle"
    /\ ArgInt(lastArgs, "buffers") = 1
    /\ ArgInt(lastArgs, "buflen") = 100
    /\ ArgInt(lastArgs, "transfers") = 50
    /\ xlog[1].numBuffs = 2
    /\ xlog[1].bufSize = 1024
    /\ xlog[1].numXfers = 2

\* A step that is one iteration of the loop of sendTxEndBurst.
IsEndBurstStep == pc \in {"write_endBurst", "deact_endBurst"} /\ xlog' # xlog

\* the burst-end marker transfers among the transport calls of a call
MarkerXfers(log) == {i \in DOMAIN log : "TX_BURST_END" \in log[i].flags}

\* C11: the in-burst flag changes from true to false only in a step of the
\* burst-end loop whose marker transfer returned success; no step of any other
\* operation, and no marker transfer that timed out or failed, clears it.
C11_BurstClearedOnlyByMarkerSuccess ==
    [][ (_inTxBurst /\ ~_inTxBurst') =>
          /\ IsEndBurstStep
          /\ xlog' = Append(xlog, EndBurstXfer("ok")) ]_vars

\* C11 witness: deactivateStream has closed the burst with a marker transfer
\* that succeeded after one that returned a hard error.
C11_Witness ==
    /\ lastCall = "deactivateStream"
    /\ ret = "ok"
    /\ ~_inTxBurst
    /\ Len(xlog) >= 2
    /\ xlog[1] = EndBurstXfer("error")
    /\ xlog[Len(xlog)] = EndBurstXfer("ok")

\* C12: burst-end makes a further marker transfer only while the transport
\* has returned timeout: when an iteration of the loop runs, every marker
\* transfer made before it in the same call returned timeout.
C12_RetryOnlyAfterTimeout ==
    [][ IsEndBurstStep =>
          \A i \in MarkerXfers(xlog) : xlog[i].ret = "timeout" ]_vars

\* C13: on every readStream call that reaches the transport, the element
\* count requested is min(caller numElems, remaining limit) when the front
\* command is finite, the remaining limit being its activated count minus the
\* actual counts already delivered for it, and the caller numElems when it is
\* unbounded; so the total delivered for a finite command never exceeds its
\* activated count.
C13_RequestClampedToRemaining ==
    [][ (IsReadCall /\ xlog' # <<>>) =>
          LET cmd == Head(_rxCmds)
              remaining == cmd.numElems - frontServed
          IN  IF cmd.numElems > 0
              THEN /\ xlog'[1].n = Min(inElems', remaining)
                   /\ (ret' = "count") => (frontServed + retN' <= cmd.numElems)
              ELSE xlog'[1].n = inElems' ]_vars

\* C14: the data transfer of a writeStream call carries the burst-start marker
\* if and only if the in-burst flag is false when the call is made.  So the
\* call made next after a writeStream that returned a count without
\* end-of-burst does not carry it, and the call made next after a writeStream
\* that carried it and timed out or failed carries it again.
C14_BurstStartIffNotInBurst ==
    [][ IsWriteCall =>
          LET starts == "TX_BURST_START" \in xlog'[1].flags
          IN  /\ starts <=> ~_inTxBurst
              /\ (lastCall = "writeStream" /\ ret = "count"
                     /\ ~WantsEndBurst(inFlags)) => ~starts
              /\ (lastCall = "writeStream" /\ ret \in {"Timeout", "StreamError"}
                     /\ "TX_BURST_START" \in xlog[1].flags) => starts ]_vars

\* C14 witness: a writeStream has continued the open burst: its data transfer
\* succeeded without the burst-start marker.
C14_Witness ==
    /\ lastCall = "writeStream"
    /\ ret = "count"
    /\ ~WantsEndBurst(inFlags)
    /\ "TX_BURST_START" \notin xlog[1].flags
    /\ _inTxBurst

\* the result of the receive transfer of a readStream call that made one
RxXferRet(log) == IF log = <<>> THEN "none" ELSE log[1].ret

\* C15: when the receive transfer returns an error other than timeout,
\* readStream returns StreamError and removes the front command if and only
\* if it is finite (its element limit is > 0); an unbounded front command
\* stays queued, the commands behind the front are the same in the same
\* order, and the overflow latch is unchanged.
C15_ErrorDropsFiniteFront ==
    [][ (IsReadCall /\ RxXferRet(xlog') = "error") =>
          /\ ret' = "StreamError"
          /\ _rxCmds' = IF Head(_rxCmds).numElems > 0
                        THEN Tail(_rxCmds) ELSE _rxCmds
          /\ _rxOverflow' = _rxOverflow ]_vars

\* C15 witness: readStream has returned StreamError on an unbounded command,
\* which is still at the front of a full queue.
C15_Witness ==
    /\ lastCall = "readStream"
    /\ ret = "StreamError"
    /\ Len(_rxCmds) = MaxQueue
    /\ Head(_rxCmds).numElems = 0

C17_FailedWriteLeavesBurstState ==
    [][ (IsWriteCall /\ xlog'[1].ret # "ok") =>
          /\ ret' = (IF xlog'[1].ret = "timeout" THEN "Timeout" ELSE "StreamError")
          /\ _inTxBurst' = _inTxBurst
          /\ _txUnderflow' = _txUnderflow
          /\ pc' = "idle"
          /\ MarkerXfers(xlog') = {} ]_vars

\* C17 witness: a writeStream that asked for end-of-burst inside an open burst
\* has returned StreamError after its one transfer, and the burst is still
\* open and the underflow latch still set.
C17_Witness ==
    /\ lastCall = "writeStream"
    /\ ret = "StreamError"
    /\ WantsEndBurst(inFlags)
    /\ Len(xlog) = 1
    /\ "TX_BURST_START" \notin xlog[1].flags
    /\ _inTxBurst
    /\ _txUnderflow

\* C18: once a readStream call has dispatched the front command and the
\* command remains queued after a successful partial transfer, every later
\* readStream call serving that command is dispatched with the immediate
\* ('now') marker, also when the command was activated with a start time.
C18_StartTimeFlagIsOneShot ==
    [][ (IsReadCall /\ xlog' # <<>> /\ frontServed > 0) =>
          "RX_NOW" \in xlog'[1].flags ]_vars

\* C19: for the float format, the block a writeStream call hands to the
\* transport has 2 * numElems components, each the float-to-fixed conversion
\* (times 2000, truncated) of the same component of the caller's buffer of
\* that call; for the native format it is the caller's buffer.
C19_BlockIsCallersBufferConverted ==
    (lastCall = "writeStream" /\ xlog # <<>>) =>
        IF _txFloats
        THEN /\ Len(xlog[1].samples) = 2 * inElems
             /\ xlog[1].samples = ConvertBlock(inBuf)
        ELSE xlog[1].samples = inBuf

\* C20: when the 'buffers' option is absent or zero, setupStream configures
\* the transport with DEF_NUM_BUFFS (32) buffers, whatever the buffer length;
\* when 'transfers' is absent or zero too, with half of that count of
\* transfers.
C20_DefaultBufferCount ==
    (lastCall = "setupStream" /\ xlog # <<>>
        /\ ArgInt(lastArgs, "buffers") = 0) =>
        /\ xlog[1].numBuffs = DEF_NUM_BUFFS
        /\ (ArgInt(lastArgs, "transfers") = 0) =>
              (xlog[1].numXfers = DEF_NUM_BUFFS \div 2)

====
